---- MODULE Spec2Model ----
(***************************************************************************)
(* AutoSlide: the template replication engine.                             *)
(*                                                                         *)
(* A presentation is a sequence of slide parts; each slide part holds a    *)
(* shape tree, a background and its own relationship table.  The driver    *)
(* build_ppt_from_excel snapshots the first slide, and per row fills it,   *)
(* clones it to the end of the document and restores it; at the end the    *)
(* first slide is removed and the document is saved.                       *)
(*                                                                         *)
(* Text is a sequence of characters.  An ordinary character is a string   *)
(* of length one; the characters normalize_key and str.strip treat         *)
(* specially carry a name: "ZWSP" (U+200B), "BOM" (U+FEFF), "WJ" (U+2060), *)
(* "NBSP" (U+00A0), "TAB", "CR", "LF", "VT" (the vertical tab that         *)
(* python-pptx reports for a line break a:br).                             *)
(***************************************************************************)
EXTENDS Integers, Sequences, FiniteSets, TLC

VARIABLES
    rows,      \* the DataFrame: a sequence of rows, each a sequence of cell values aligned with Columns
    slides,    \* prs.slides: the slide parts in the order of the presentation's slide id list
    prsRels,   \* the presentation part's relationships to slide parts (set of part numbers)
    backup,    \* original_shapes_xml: [taken, shapes], taken = FALSE before the snapshot
    pc,        \* position of build_ppt_from_excel
    idx,       \* 1-based index of the row the loop is at
    saved,     \* what prs.save wrote: [done, slides], done = FALSE before the save
    input,     \* history: the slide sequence as loaded by Presentation(template_path)
    prefill,   \* history: the template shape tree and relationship table when the last fill began
    probe,     \* the argument of a call of normalize_key or set_text_preserve_style on its own
    canon      \* what normalize_key returned for probe; the shape after each set_text_preserve_style

vars == <<rows, slides, prsRels, backup, pc, idx, saved, input, prefill, probe, canon>>

(***************************************************************************)
(* Bounds of the model.                                                    *)
(***************************************************************************)
MaxRows == 2
MaxOtherSlides == 1
MaxLabelLen == 3
MaxParas == 2
MaxParaItems == 2

(***************************************************************************)
(* Characters and strings.                                                 *)
(***************************************************************************)
\* str.lower() on the letters of the model's alphabet
LowerChar(c) ==
    CASE c = "A" -> "a" [] c = "B" -> "b" [] c = "G" -> "g" [] c = "I" -> "i"
      [] c = "L" -> "l" [] c = "M" -> "m" [] c = "N" -> "n" [] c = "P" -> "p"
      [] OTHER -> c

\* str.upper() on the letters of the model's alphabet
UpperChar(c) ==
    CASE c = "a" -> "A" [] c = "b" -> "B" [] c = "g" -> "G" [] c = "i" -> "I"
      [] c = "l" -> "L" [] c = "m" -> "M" [] c = "n" -> "N" [] c = "p" -> "P"
      [] OTHER -> c

Lower(s) == [i \in 1..Len(s) |-> LowerChar(s[i])]
Upper(s) == [i \in 1..Len(s) |-> UpperChar(s[i])]

\* str.endswith(suffix)
EndsWith(s, suffix) ==
    /\ Len(suffix) <= Len(s)
    /\ SubSeq(s, Len(s) - Len(suffix) + 1, Len(s)) = suffix

\* str.endswith(tuple of suffixes)
EndsWithAny(s, suffixes) == \E x \in suffixes : EndsWith(s, x)

\* the characters str.strip() removes at both ends (str.isspace)
PyWhitespace == {" ", "TAB", "LF", "CR", "VT", "NBSP"}

RECURSIVE LStrip(_)
LStrip(s) ==
    IF s # <<>> /\ Head(s) \in PyWhitespace THEN LStrip(Tail(s)) ELSE s

RECURSIVE RStrip(_)
RStrip(s) ==
    IF s # <<>> /\ s[Len(s)] \in PyWhitespace
    THEN RStrip(SubSeq(s, 1, Len(s) - 1))
    ELSE s

\* str.strip()
Strip(s) == RStrip(LStrip(s))

\* s.replace(ch, '') for one character
RECURSIVE RemoveChar(_, _)
RemoveChar(s, ch) ==
    IF s = <<>> THEN <<>>
    ELSE (IF Head(s) = ch THEN <<>> ELSE <<Head(s)>>) \o RemoveChar(Tail(s), ch)

\* s.replace(a, b) for single characters
ReplaceChar(s, a, b) == [i \in 1..Len(s) |-> IF s[i] = a THEN b ELSE s[i]]

\* s.replace(a + b, with): left to right, non-overlapping
RECURSIVE ReplacePair(_, _, _, _)
ReplacePair(s, a, b, with) ==
    IF Len(s) < 2 THEN s
    ELSE IF s[1] = a /\ s[2] = b
         THEN with \o ReplacePair(SubSeq(s, 3, Len(s)), a, b, with)
         ELSE <<s[1]>> \o ReplacePair(Tail(s), a, b, with)

\* '  ' in s
HasDoubleSpace(s) == \E i \in 1..(Len(s) - 1) : s[i] = " " /\ s[i + 1] = " "

\* while '  ' in s: s = s.replace('  ', ' ')
RECURSIVE CollapseSpaces(_)
CollapseSpaces(s) ==
    IF HasDoubleSpace(s) THEN CollapseSpaces(ReplacePair(s, " ", " ", <<" ">>)) ELSE s

\* a normalisation that also folds the letter case
NormalizeKeyFolding(s) ==
    LET s1 == RemoveChar(RemoveChar(RemoveChar(s, "ZWSP"), "BOM"), "WJ")
        s2 == ReplaceChar(ReplaceChar(s1, "NBSP", " "), "TAB", " ")
        s3 == RemoveChar(RemoveChar(s2, "LF"), "CR")
    IN  Lower(CollapseSpaces(Strip(s3)))

\* normalize_key, step by step as the code applies them
NormalizeKey(s) ==
    LET s1 == RemoveChar(RemoveChar(RemoveChar(s, "ZWSP"), "BOM"), "WJ")
        s2 == ReplaceChar(s1, "NBSP", " ")
        s3 == ReplaceChar(s2, "TAB", " ")
        s4 == RemoveChar(RemoveChar(ReplacePair(s3, "CR", "LF", <<>>), "LF"), "CR")
        s5 == Strip(s4)
    IN  CollapseSpaces(s5)

(***************************************************************************)
(* Cell values.  pandas yields str cells, float NaN for an empty cell and  *)
(* numbers; None is the other missing value fill_template_with_row tests.  *)
(***************************************************************************)
StrVal(s) == [ty |-> "str", s |-> s]
NumVal(s) == [ty |-> "num", s |-> s]
NoneVal == [ty |-> "none", s |-> <<>>]
NaNVal == [ty |-> "nan", s |-> <<>>]

\* str(val)
PyStr(v) ==
    CASE v.ty = "none" -> <<"N", "o", "n", "e">>
      [] v.ty = "nan" -> <<"n", "a", "n">>
      [] OTHER -> v.s

(***************************************************************************)
(* Shapes.  kind: "sp" a text box or auto shape, "ph" a placeholder        *)
(* without insert_picture, "picph" a picture placeholder, "pic" a picture, *)
(* "phpic" a placeholder holding a picture, "grp" a group, "gf" a graphic  *)
(* frame.  paras is the text body: paragraphs of runs (k = "r", with a     *)
(* style record sty) and line breaks (k = "br").  refs are the r:          *)
(* attributes of the shape's own nodes in document order; kids the child   *)
(* shapes of a group.                                                      *)
(***************************************************************************)
Run(t, sty) == [k |-> "r", t |-> t, sty |-> sty]
Br == [k |-> "br", t |-> <<"VT">>, sty |-> 0]
Ref(attr, rid) == [attr |-> attr, rid |-> rid]
Shape(id, kind, paras, refs, kids) ==
    [id |-> id, kind |-> kind, paras |-> paras, refs |-> refs, kids |-> kids,
     geom |-> <<id, 2 * id, 30, 20>>]

\* a relationship: type, target (a part name or a URI) and the external flag
Rel(type, target, ext) == [type |-> type, target |-> target, ext |-> ext]

Range(f) == {f[x] : x \in DOMAIN f}

\* every shape of a tree, in document order
RECURSIVE AllShapes(_)
AllShapes(shapes) ==
    IF shapes = <<>> THEN <<>>
    ELSE <<Head(shapes)>> \o AllShapes(Head(shapes).kids) \o AllShapes(Tail(shapes))

ShapeIds(shapes) == {s.id : s \in Range(AllShapes(shapes))}

\* the shape object with the given id
Find(shapes, id) == CHOOSE s \in Range(AllShapes(shapes)) : s.id = id

\* the tree with the node `id` replaced by the sequence `new` (<<>> removes it)
RECURSIVE Subst(_, _, _)
Subst(shapes, id, new) ==
    IF shapes = <<>> THEN <<>>
    ELSE LET h == Head(shapes)
         IN  (IF h.id = id THEN new
              ELSE <<[h EXCEPT !.kids = Subst(h.kids, id, new)]>>)
             \o Subst(Tail(shapes), id, new)

\* shape.has_text_frame
HasTextFrame(sh) == sh.kind \in {"sp", "ph", "picph"}

\* paragraph.text: the text of its runs and line breaks
RECURSIVE ParaText(_)
ParaText(p) == IF p = <<>> THEN <<>> ELSE Head(p).t \o ParaText(Tail(p))

\* text_frame.text: the paragraphs joined by a line feed
RECURSIVE FrameText(_)
FrameText(paras) ==
    IF paras = <<>> THEN <<>>
    ELSE IF Len(paras) = 1 THEN ParaText(paras[1])
    ELSE ParaText(paras[1]) \o <<"LF">> \o FrameText(Tail(paras))

\* get_text_content
GetTextContent(sh) == IF ~HasTextFrame(sh) THEN <<>> ELSE FrameText(sh.paras)

\* para.runs: the a:r children only
RECURSIVE Runs(_)
Runs(p) ==
    IF p = <<>> THEN <<>>
    ELSE (IF Head(p).k = "r" THEN <<Head(p)>> ELSE <<>>) \o Runs(Tail(p))

\* a first paragraph whose later runs are not removed
RECURSIVE KeepAllRuns(_, _, _)
KeepAllRuns(p, text, seen) ==
    IF p = <<>> THEN <<>>
    ELSE LET h == Head(p)
         IN  IF h.k # "r" \/ seen THEN <<h>> \o KeepAllRuns(Tail(p), text, seen)
             ELSE <<[h EXCEPT !.t = text]>> \o KeepAllRuns(Tail(p), text, TRUE)

\* the first paragraph after runs[0].text = text and the removal of runs[1:]
RECURSIVE KeepFirstRun(_, _, _)
KeepFirstRun(p, text, seen) ==
    IF p = <<>> THEN <<>>
    ELSE LET h == Head(p)
         IN  IF h.k # "r" THEN <<h>> \o KeepFirstRun(Tail(p), text, seen)
             ELSE IF seen THEN KeepFirstRun(Tail(p), text, TRUE)
             ELSE <<[h EXCEPT !.t = text]>> \o KeepFirstRun(Tail(p), text, TRUE)

\* set_text_preserve_style on the text body of a shape
SetTextPreserveStyle(sh, value) ==
    IF ~HasTextFrame(sh) THEN sh
    ELSE LET text == IF value.ty \in {"none", "nan"} THEN <<>> ELSE PyStr(value)
         IN  IF sh.paras = <<>> THEN sh
             ELSE LET para == sh.paras[1]
                      first == IF Runs(para) # <<>>
                               THEN KeepFirstRun(para, text, FALSE)
                               ELSE Append(para, Run(text, 0))
                  IN  [sh EXCEPT !.paras = <<first>>]

(***************************************************************************)
(* Relationship tables: a function from the number n of "rIdn" to a        *)
(* relationship.                                                           *)
(***************************************************************************)
MinOf(S) == CHOOSE x \in S : \A y \in S : x <= y
MaxOf(S) == CHOOSE x \in S : \A y \in S : x >= y

\* the first unused rId number
NextRId(rels) ==
    MinOf({n \in 1..(Cardinality(DOMAIN rels) + 1) : n \notin DOMAIN rels})

\* a relate_to that adds an entry on every call
RelateToAlwaysNew(rels, rel) ==
    [rid |-> NextRId(rels), rels |-> rels @@ (NextRId(rels) :> rel)]

\* part.relate_to: the id of a matching relationship when the table holds
\* one (get_or_add), a new entry otherwise
RelateTo(rels, rel) ==
    LET same == {r \in DOMAIN rels : rels[r] = rel}
    IN  IF same # {} THEN [rid |-> MinOf(same), rels |-> rels]
        ELSE [rid |-> NextRId(rels), rels |-> rels @@ (NextRId(rels) :> rel)]

(***************************************************************************)
(* The file system the image paths are resolved against.                   *)
(***************************************************************************)
FileA == <<"a", ".", "p", "n", "g">>
FileB == <<"b", ".", "P", "N", "G">>
FileBad == <<"b", "a", "d", ".", "p", "n", "g">>
FileGone == <<"x", ".", "p", "n", "g">>

\* os.path.isfile
ExistingFiles == {FileA, FileB, FileBad}
\* the files add_picture and insert_picture can read as an image
ReadableImages == {FileA, FileB}

IMAGE_EXTENSIONS ==
    { <<".", "p", "n", "g">>, <<".", "j", "p", "g">>, <<".", "j", "p", "e", "g">>,
      <<".", "g", "i", "f">>, <<".", "b", "m", "p">>, <<".", "t", "i", "f">>,
      <<".", "t", "i", "f", "f">>, <<".", "w", "e", "b", "p">> }

\* shapes._next_shape_id: one more than the largest id of the slide (the
\* shape tree's own node has id 1)
NextShapeId(shapes) == MaxOf(ShapeIds(shapes) \cup {1}) + 1

\* a fill_picture whose fallback adds the picture and leaves the shape
FillPictureKeepingShape(st, id, path) ==
    IF path = <<>> \/ path \notin ExistingFiles THEN st
    ELSE LET shape == Find(st.shapes, id)
             r == RelateTo(st.rels, Rel("image", path, FALSE))
         IN  IF shape.kind = "picph" /\ path \in ReadableImages
             THEN [shapes |-> Subst(st.shapes, id,
                                    <<[shape EXCEPT !.kind = "phpic", !.paras = <<>>,
                                                    !.refs = <<Ref("embed", r.rid)>>]>>),
                   rels |-> r.rels]
             ELSE IF path \in ReadableImages
             THEN LET pic == [id |-> NextShapeId(st.shapes), kind |-> "pic",
                              paras |-> <<>>, refs |-> <<Ref("embed", r.rid)>>,
                              kids |-> <<>>, geom |-> shape.geom]
                  IN  [shapes |-> Append(st.shapes, pic), rels |-> r.rels]
             ELSE st

\* fill_picture on the shape `id` of the slide state st = [shapes, rels]
FillPicture(st, id, path) ==
    IF path = <<>> \/ path \notin ExistingFiles THEN st
    ELSE LET shape == Find(st.shapes, id)
             r == RelateTo(st.rels, Rel("image", path, FALSE))
         IN  IF shape.kind = "picph" /\ path \in ReadableImages
             THEN \* insert_picture: the placeholder becomes a picture in place
                  [shapes |-> Subst(st.shapes, id,
                                    <<[shape EXCEPT !.kind = "phpic", !.paras = <<>>,
                                                    !.refs = <<Ref("embed", r.rid)>>]>>),
                   rels |-> r.rels]
             ELSE IF path \in ReadableImages
             THEN \* add_picture at the shape's geometry, then remove the shape
                  LET pic == [id |-> NextShapeId(st.shapes), kind |-> "pic",
                              paras |-> <<>>, refs |-> <<Ref("embed", r.rid)>>,
                              kids |-> <<>>, geom |-> shape.geom]
                  IN  [shapes |-> Subst(Append(st.shapes, pic), id, <<>>),
                       rels |-> r.rels]
             ELSE \* add_picture raises, the failure is printed
                  st

(***************************************************************************)
(* fill_template_with_row                                                  *)
(***************************************************************************)
\* the column labels of the DataFrame
Columns == << <<"N", "NBSP">>, <<"L", "_", "i", "m", "g">>, <<"P">> >>

\* row_dict: normalized label -> cell, empty labels dropped, later columns win
RowDict(row) ==
    LET keys == {NormalizeKey(Columns[i]) : i \in 1..Len(Columns)} \ {<<>>}
    IN  [k \in keys |->
            row[MaxOf({i \in 1..Len(Columns) : NormalizeKey(Columns[i]) = k})]]

\* a collection of shapes that descends into groups of every depth
RECURSIVE ShapesToProcessDeep(_)
ShapesToProcessDeep(shapes) ==
    IF shapes = <<>> THEN <<>>
    ELSE LET h == Head(shapes)
         IN  (IF h.kind = "grp" THEN ShapesToProcessDeep(h.kids) ELSE <<h.id>>)
             \o ShapesToProcessDeep(Tail(shapes))

\* shapes_to_process: top-level shapes, a top-level group replaced by its children
RECURSIVE ShapesToProcess(_)
ShapesToProcess(shapes) ==
    IF shapes = <<>> THEN <<>>
    ELSE LET h == Head(shapes)
         IN  (IF h.kind = "grp" THEN [i \in 1..Len(h.kids) |-> h.kids[i].id]
              ELSE <<h.id>>)
             \o ShapesToProcess(Tail(shapes))

\* val is None or (isinstance(val, str) and val.lower() == 'nan')
IsMissing(val) ==
    \/ val.ty = "none"
    \/ val.ty = "str" /\ Lower(val.s) = <<"n", "a", "n">>

\* a routing rule that looks at the key alone
IsImageFieldKeyOnly(key, sval) == EndsWith(Upper(key), <<"_", "I", "M", "G">>)

\* key.upper().endswith('_IMG') or sval.lower().endswith(image_suffixes)
IsImageField(key, sval) ==
    \/ EndsWith(Upper(key), <<"_", "I", "M", "G">>)
    \/ EndsWithAny(Lower(sval), IMAGE_EXTENSIONS)

\* the slide state with the text of shape `id` set
SetShapeText(st, id, value) ==
    [st EXCEPT !.shapes =
        Subst(st.shapes, id, <<SetTextPreserveStyle(Find(st.shapes, id), value)>>)]

\* one iteration of the loop over shapes_to_process; `raises` is an
\* exception raised while the shape is processed (caught, the shape skipped)
ProcessShape(st, id, rd, raises) ==
    LET shape == Find(st.shapes, id)
        key == NormalizeKey(GetTextContent(shape))
    IN  IF raises THEN st
        ELSE IF key = <<>> THEN st
        ELSE IF key \notin DOMAIN rd THEN st
        ELSE LET val == rd[key]
                 sval == Strip(PyStr(val))
             IN  IF IsMissing(val) \/ sval = <<>>
                 THEN IF HasTextFrame(shape)
                      THEN SetShapeText(st, id, StrVal(<<>>))
                      ELSE st
                 ELSE IF IsImageField(key, sval) THEN FillPicture(st, id, sval)
                 ELSE SetShapeText(st, id, StrVal(sval))

\* the loop over shapes_to_process (each step is bound to a value before the
\* next one is taken, which keeps TLC's evaluation flat)
RECURSIVE ProcessAll(_, _, _, _)
ProcessAll(st, ids, rd, bad) ==
    IF ids = <<>> THEN st
    ELSE CHOOSE r \in { ProcessAll(x, Tail(ids), rd, bad) :
                           x \in {ProcessShape(st, Head(ids), rd, Head(ids) \in bad)} } :
             TRUE

\* fill_template_with_row on the slide state st; the shapes in `bad` raise
FillTemplateWithRow(st, row, bad) ==
    ProcessAll(st, ShapesToProcess(st.shapes), RowDict(row), bad)

(***************************************************************************)
(* restore_template_shapes and backup_template_shapes                      *)
(***************************************************************************)
\* the deep copies of the top-level shape elements
BackupTemplateShapes(shapes) == [i \in 1..Len(shapes) |-> shapes[i]]

\* every current top-level shape removed, then a copy of each snapshot entry
\* inserted before the tree's p:extLst
RECURSIVE RemoveListed(_, _)
RemoveListed(shapes, listed) ==
    IF shapes = <<>> THEN <<>>
    ELSE (IF Head(shapes).id \in listed THEN <<>> ELSE <<Head(shapes)>>)
         \o RemoveListed(Tail(shapes), listed)

\* a restore that removes only the shapes the snapshot knows and keeps
\* whatever the fill added
RestoreKeepingAdded(shapes, original) ==
    RemoveListed(shapes, {original[i].id : i \in 1..Len(original)}) \o original

RestoreTemplateShapes(shapes, original) ==
    RemoveListed(shapes, {shapes[i].id : i \in 1..Len(shapes)}) \o original

(***************************************************************************)
(* duplicate_slide                                                         *)
(***************************************************************************)
\* the attributes _remap_relationships_in_element rewrites
RemappedAttrs == {"embed", "id"}

\* the remapping of the r: attributes of one node list
RECURSIVE RemapRefs(_, _, _)
RemapRefs(refs, srcRels, dstRels) ==
    IF refs = <<>> THEN [refs |-> <<>>, rels |-> dstRels]
    ELSE LET h == Head(refs)
             hit == h.attr \in RemappedAttrs /\ h.rid \in DOMAIN srcRels
             r == RelateTo(dstRels, srcRels[h.rid])
             rest == RemapRefs(Tail(refs), srcRels, IF hit THEN r.rels ELSE dstRels)
         IN  [refs |-> <<IF hit THEN Ref(h.attr, r.rid) ELSE h>> \o rest.refs,
              rels |-> rest.rels]

\* _remap_relationships_in_element over copied shape subtrees, in document order
RECURSIVE RemapShapes(_, _, _)
RemapShapes(shapes, srcRels, dstRels) ==
    IF shapes = <<>> THEN [shapes |-> <<>>, rels |-> dstRels]
    ELSE LET h == Head(shapes)
             own == RemapRefs(h.refs, srcRels, dstRels)
             sub == RemapShapes(h.kids, srcRels, own.rels)
             rest == RemapShapes(Tail(shapes), srcRels, sub.rels)
         IN  [shapes |-> <<[h EXCEPT !.refs = own.refs, !.kids = sub.shapes]>>
                          \o rest.shapes,
              rels |-> rest.rels]

\* the placeholders add_slide clones from the layout onto a new slide
LayoutPlaceholders(layout) ==
    IF layout = "title" THEN <<Shape(2, "ph", << <<>> >>, <<>>, <<>>)>> ELSE <<>>

\* prs.slides.add_slide(layout): a new slide part related to its layout
AddSlide(layout, part, origin) ==
    [part |-> part, origin |-> origin, layout |-> layout,
     shapes |-> LayoutPlaceholders(layout),
     rels |-> (1 :> Rel("slideLayout", <<layout>>, FALSE)),
     bg |-> <<>>]

\* the new slide after the loop over the first n source shapes
CopyShapes(dst, src, n) ==
    LET r == RemapShapes(SubSeq(src.shapes, 1, n), src.rels, dst.rels)
    IN  [dst EXCEPT !.shapes = dst.shapes \o r.shapes, !.rels = r.rels]

\* a background step that copies the background alone and leaves the new
\* slide's shape tree as the shape loop left it
CopyBackgroundOnly(dst, src) ==
    LET b == RemapRefs(src.bg, src.rels, dst.rels)
    IN  [dst EXCEPT !.bg = b.refs, !.rels = b.rels]

\* the background step: src_slide.background.element is the source's whole
\* p:cSld (background and shape tree); its copy is remapped and replaces the
\* new slide's p:cSld
CopyBackground(dst, src) ==
    LET b == RemapRefs(src.bg, src.rels, dst.rels)
        r == RemapShapes(src.shapes, src.rels, b.rels)
    IN  [dst EXCEPT !.bg = b.refs, !.shapes = r.shapes, !.rels = r.rels]

\* duplicate_slide: the new slide
DuplicateSlide(src, part, origin) ==
    CopyBackground(CopyShapes(AddSlide(src.layout, part, origin), src, Len(src.shapes)),
                   src)

(***************************************************************************)
(* Inputs: the template documents and the rows of the tabular source.      *)
(***************************************************************************)
LabelN == <<"N">>
LabelImg == <<"L", "_", "i", "m", "g">>
LabelP == <<"P">>

TextBox(id, label) == Shape(id, "sp", << <<Run(label, id)>> >>, <<>>, <<>>)

\* plain labels, one written " N" with a trailing empty paragraph, and a picture
TemplateA ==
    [part |-> 1, origin |-> 0, layout |-> "title",
     shapes |-> << Shape(2, "sp", << <<Run(<<" ", "N">>, 1)>>, <<>> >>, <<>>, <<>>),
                   TextBox(3, LabelImg),
                   Shape(4, "pic", <<>>, <<Ref("embed", 2)>>, <<>>),
                   TextBox(5, <<"L", "_", "I", "M", "G">>) >>,
     rels |-> (1 :> Rel("slideLayout", <<"title">>, FALSE))
              @@ (2 :> Rel("image", <<"o", "l", "d">>, FALSE)),
     bg |-> <<>>]

\* a group holding labels and a nested group, and a label in another case
TemplateB ==
    [part |-> 1, origin |-> 0, layout |-> "blank",
     shapes |-> << Shape(2, "grp", <<>>, <<>>,
                         << TextBox(3, LabelN),
                            Shape(4, "grp", <<>>, <<>>,
                                  << TextBox(5, LabelN), TextBox(6, LabelImg) >>),
                            TextBox(7, LabelImg) >>),
                   TextBox(8, <<"n">>),
                   TextBox(9, LabelP) >>,
     rels |-> (1 :> Rel("slideLayout", <<"blank">>, FALSE)),
     bg |-> <<>>]

\* placeholders, a linked picture, a hyperlink, one image used twice, and a
\* background image
TemplateC ==
    [part |-> 1, origin |-> 0, layout |-> "title",
     shapes |-> << Shape(2, "picph", << <<Run(LabelP, 1)>> >>, <<>>, <<>>),
                   Shape(3, "ph", << <<Run(LabelImg, 1)>> >>, <<>>, <<>>),
                   Shape(4, "pic", <<>>, <<Ref("link", 5)>>, <<>>),
                   Shape(5, "sp", << <<Run(LabelN, 1)>> >>, <<Ref("id", 2)>>, <<>>),
                   Shape(6, "pic", <<>>, <<Ref("embed", 3)>>, <<>>),
                   Shape(7, "pic", <<>>, <<Ref("embed", 3)>>, <<>>) >>,
     rels |-> (1 :> Rel("slideLayout", <<"title">>, FALSE))
              @@ (2 :> Rel("hyperlink", <<"w", "w", "w">>, TRUE))
              @@ (3 :> Rel("image", <<"o", "l", "d">>, FALSE))
              @@ (4 :> Rel("image", <<"b", "g">>, FALSE))
              @@ (5 :> Rel("image", <<"u", "r", "i">>, TRUE)),
     bg |-> <<Ref("embed", 4)>>]

\* rich text: several runs, a line break, a first paragraph without runs,
\* and a chart frame
TemplateD ==
    [part |-> 1, origin |-> 0, layout |-> "blank",
     shapes |-> << Shape(2, "sp",
                         << <<Run(LabelN, 1), Run(<<"ZWSP">>, 2), Br>>,
                            <<Run(<<>>, 3)>> >>, <<>>, <<>>),
                   Shape(3, "sp", << <<>>, <<Run(LabelP, 1)>> >>, <<>>, <<>>),
                   Shape(4, "gf", <<>>, <<Ref("id", 2)>>, <<>>) >>,
     rels |-> (1 :> Rel("slideLayout", <<"blank">>, FALSE))
              @@ (2 :> Rel("chart", <<"c", "h">>, FALSE)),
     bg |-> <<>>]

Templates == {TemplateA, TemplateB, TemplateC, TemplateD}

\* a slide of the input document after the first
OtherSlide(part) ==
    [part |-> part, origin |-> 0, layout |-> "blank",
     shapes |-> <<TextBox(2, LabelN)>>,
     rels |-> (1 :> Rel("slideLayout", <<"blank">>, FALSE)),
     bg |-> <<>>]

\* the input documents: a template slide followed by n other slides
Documents ==
    { <<t>> \o [i \in 1..n |-> OtherSlide(i + 1)] :
        t \in Templates, n \in 0..MaxOtherSlides }

\* the rows: one cell per column of Columns
RowChoices ==
    { << StrVal(<<"B", "o", "b">>), StrVal(FileA), StrVal(FileB) >>,
      << NaNVal, StrVal(<<"N", "/", "A">>), NoneVal >>,
      << StrVal(<<"N", "a", "N">>), StrVal(<<" ", " ">>), StrVal(FileGone) >>,
      << StrVal(FileA), StrVal(FileBad), StrVal(<<"a", "p", "n", "g">>) >>,
      << StrVal(<<" ", "A", "l", " ">>), NaNVal, NumVal(<<"5">>) >> }

RowSeqs == UNION {[1..n -> RowChoices] : n \in 0..MaxRows}

(***************************************************************************)
(* build_ppt_from_excel                                                    *)
(***************************************************************************)
\* a validity check that accepts every source
DfEmptyNever(df) == FALSE

\* df.empty: no rows or no columns
DfEmpty(df) == Len(df) = 0 \/ Len(Columns) = 0

\* a run of build_ppt_from_excel on a document and a tabular source
InitBuild ==
    /\ rows \in RowSeqs
    /\ slides \in Documents
    /\ prsRels = {slides[i].part : i \in 1..Len(slides)}
    /\ backup = [taken |-> FALSE, shapes |-> <<>>]
    /\ pc = "load"
    /\ idx = 0
    /\ saved = [done |-> FALSE, slides |-> <<>>]
    /\ input = slides
    /\ prefill = [shapes |-> <<>>, rels |-> <<>>, row |-> 0]
    /\ probe = <<>>
    /\ canon = <<>>

\* the characters labels are drawn from
LabelChars == {"N", "n", " ", "NBSP", "TAB", "ZWSP", "BOM", "WJ", "CR", "LF", "VT"}

LabelStrings == UNION {[1..n -> LabelChars] : n \in 0..MaxLabelLen}

\* a call of normalize_key on a label of its own
InitProbe ==
    /\ probe \in LabelStrings
    /\ pc = "probe"
    /\ canon = <<>>
    /\ rows = <<>>
    /\ slides = <<>>
    /\ prsRels = {}
    /\ backup = [taken |-> FALSE, shapes |-> <<>>]
    /\ idx = 0
    /\ saved = [done |-> FALSE, slides |-> <<>>]
    /\ input = <<>>
    /\ prefill = [shapes |-> <<>>, rels |-> <<>>, row |-> 0]

\* what a paragraph of a text body is made of
TextItems == {Run(<<"N">>, 1), Run(<<"x">>, 2), Br}

\* first paragraphs, and the paragraphs that may follow
TextParagraphs == UNION {[1..n -> TextItems] : n \in 0..MaxParaItems}

LaterParagraphs == { <<>>, <<Run(<<"x">>, 2)>> }

\* text bodies: a text frame always holds at least one paragraph
TextBodies ==
    { <<first>> \o rest :
        first \in TextParagraphs,
        rest \in UNION {[1..n -> LaterParagraphs] : n \in 0..(MaxParas - 1)} }

\* shapes handed to set_text_preserve_style: with a text frame and without
TextTargets ==
    {Shape(2, "sp", b, <<>>, <<>>) : b \in TextBodies}
    \cup { Shape(2, "pic", <<>>, <<Ref("embed", 2)>>, <<>>),
           Shape(2, "grp", <<>>, <<>>, <<TextBox(3, LabelN)>>) }

TextValues == {NoneVal, NaNVal, StrVal(<<>>), StrVal(<<"x">>), NumVal(<<"5">>)}

\* calls of set_text_preserve_style on a shape of its own
InitText ==
    /\ probe \in [shape : TextTargets, value : TextValues]
    /\ pc = "settext"
    /\ canon = <<>>
    /\ rows = <<>>
    /\ slides = <<>>
    /\ prsRels = {}
    /\ backup = [taken |-> FALSE, shapes |-> <<>>]
    /\ idx = 0
    /\ saved = [done |-> FALSE, slides |-> <<>>]
    /\ input = <<>>
    /\ prefill = [shapes |-> <<>>, rels |-> <<>>, row |-> 0]

Init == InitBuild \/ InitProbe \/ InitText

\* set_text_preserve_style(shape, value), a first and a second time
SetText ==
    /\ pc = "settext"
    /\ LET shape == IF canon = <<>> THEN probe.shape ELSE canon[Len(canon)]
       IN  canon' = Append(canon, SetTextPreserveStyle(shape, probe.value))
    /\ pc' = IF canon = <<>> THEN "settext" ELSE "settextdone"
    /\ UNCHANGED <<rows, slides, prsRels, backup, idx, saved, input, prefill, probe>>

\* normalize_key(probe)
Normalize ==
    /\ pc = "probe"
    /\ canon' = NormalizeKey(probe)
    /\ pc' = "probed"
    /\ UNCHANGED <<rows, slides, prsRels, backup, idx, saved, input, prefill, probe>>

\* the load and the validity check: an empty source raises RuntimeError
Load ==
    /\ pc = "load"
    /\ pc' = IF DfEmpty(rows) THEN "aborted" ELSE "backup"
    /\ UNCHANGED <<rows, slides, prsRels, backup, idx, saved, input, prefill, probe, canon>>

\* original_shapes_xml = backup_template_shapes(tmpl)
Backup ==
    /\ pc = "backup"
    /\ backup' = [taken |-> TRUE, shapes |-> BackupTemplateShapes(slides[1].shapes)]
    /\ idx' = 1
    /\ pc' = "loop"
    /\ UNCHANGED <<rows, slides, prsRels, saved, input, prefill, probe, canon>>

\* fill_template_with_row(tmpl, row)
Fill ==
    /\ pc = "loop"
    /\ idx <= Len(rows)
    /\ LET t == slides[1]
           st == FillTemplateWithRow([shapes |-> t.shapes, rels |-> t.rels],
                                     rows[idx], {})
       IN  /\ slides' = [slides EXCEPT ![1].shapes = st.shapes, ![1].rels = st.rels]
           /\ prefill' = [shapes |-> t.shapes, rels |-> t.rels, row |-> idx]
    /\ pc' = "clone"
    /\ UNCHANGED <<rows, prsRels, backup, idx, saved, input, probe, canon>>

\* a slide id list that takes the new slide right behind the first slide
AddToSlideIdListFront(lst, slide) == <<Head(lst), slide>> \o Tail(lst)

\* add_slide puts the new slide at the end of the presentation's slide id list
AddToSlideIdList(lst, slide) == Append(lst, slide)

\* duplicate_slide(prs, tmpl)
Clone ==
    /\ pc = "clone"
    /\ slides' = AddToSlideIdList(slides, DuplicateSlide(slides[1], Len(slides) + 1, idx))
    /\ prsRels' = prsRels \cup {Len(slides) + 1}
    /\ pc' = "restore"
    /\ UNCHANGED <<rows, backup, idx, saved, input, prefill, probe, canon>>

\* restore_template_shapes(tmpl, original_shapes_xml), then the next row
Restore ==
    /\ pc = "restore"
    /\ slides' = [slides EXCEPT ![1].shapes = RestoreTemplateShapes(@, backup.shapes)]
    /\ idx' = idx + 1
    /\ pc' = "loop"
    /\ UNCHANGED <<rows, prsRels, backup, saved, input, prefill, probe, canon>>

\* the first entry of the slide id list and its relationship are dropped
RemoveTemplate ==
    /\ pc = "loop"
    /\ idx > Len(rows)
    /\ prsRels' = prsRels \ {slides[1].part}
    /\ slides' = Tail(slides)
    /\ pc' = "save"
    /\ UNCHANGED <<rows, backup, idx, saved, input, prefill, probe, canon>>

\* prs.save(out_path)
Save ==
    /\ pc = "save"
    /\ saved' = [done |-> TRUE, slides |-> slides]
    /\ pc' = "done"
    /\ UNCHANGED <<rows, slides, prsRels, backup, idx, input, prefill, probe, canon>>

Next ==
    \/ Load \/ Backup \/ Fill \/ Clone \/ Restore \/ RemoveTemplate \/ Save
    \/ Normalize \/ SetText

Spec == Init /\ [][Next]_vars

\* ---------------------------------------------------------------------------
\* The same run when a library call raises.

\* fill_template_with_row when the handling of one shape raises: the except
\* clause of the per-shape loop logs it and the loop goes on
FillShapeRaises ==
    /\ pc = "loop"
    /\ idx <= Len(rows)
    /\ \E id \in Range(ShapesToProcess(slides[1].shapes)) :
          LET t == slides[1]
              st == FillTemplateWithRow([shapes |-> t.shapes, rels |-> t.rels],
                                        rows[idx], {id})
          IN  /\ slides' = [slides EXCEPT ![1].shapes = st.shapes,
                                          ![1].rels = st.rels]
              /\ prefill' = [shapes |-> t.shapes, rels |-> t.rels, row |-> idx]
    /\ pc' = "clone"
    /\ UNCHANGED <<rows, prsRels, backup, idx, saved, input, probe, canon>>

\* fill_template_with_row when collecting the shapes raises: it returns
\* without filling anything
FillCollectRaises ==
    /\ pc = "loop"
    /\ idx <= Len(rows)
    /\ prefill' = [shapes |-> slides[1].shapes, rels |-> slides[1].rels,
                   row |-> idx]
    /\ pc' = "clone"
    /\ UNCHANGED <<rows, slides, prsRels, backup, idx, saved, input, probe, canon>>

\* duplicate_slide when copying the background raises: the except clause
\* swallows it and the new slide keeps what the shape loop produced
CloneBackgroundRaises ==
    /\ pc = "clone"
    /\ LET src == slides[1]
           dst == AddSlide(src.layout, Len(slides) + 1, idx)
       IN  slides' = AddToSlideIdList(slides,
                                      CopyShapes(dst, src, Len(src.shapes)))
    /\ prsRels' = prsRels \cup {Len(slides) + 1}
    /\ pc' = "restore"
    /\ UNCHANGED <<rows, backup, idx, saved, input, prefill, probe, canon>>

\* duplicate_slide when copying shape n + 1 raises: nothing catches it in
\* duplicate_slide or in the row loop, build_ppt_from_excel ends with it
CloneRaises ==
    /\ pc = "clone"
    /\ \E n \in 0..(Len(slides[1].shapes) - 1) :
          LET src == slides[1]
              dst == AddSlide(src.layout, Len(slides) + 1, idx)
          IN  slides' = AddToSlideIdList(slides, CopyShapes(dst, src, n))
    /\ prsRels' = prsRels \cup {Len(slides) + 1}
    /\ pc' = "aborted"
    /\ UNCHANGED <<rows, backup, idx, saved, input, prefill, probe, canon>>

\* restore_template_shapes when re-inserting the first saved shape raises:
\* the shapes are already removed, and nothing catches it in the row loop
RestoreRaises ==
    /\ pc = "restore"
    /\ backup.shapes # <<>>
    /\ slides' = [slides EXCEPT ![1].shapes = RemoveListed(@, ShapeIds(@))]
    /\ pc' = "aborted"
    /\ UNCHANGED <<rows, prsRels, backup, idx, saved, input, prefill, probe, canon>>

NextFault ==
    \/ Next
    \/ FillShapeRaises
    \/ FillCollectRaises
    \/ CloneBackgroundRaises
    \/ CloneRaises
    \/ RestoreRaises

SpecFault == Init /\ [][NextFault]_vars

\* ---------------------------------------------------------------------------
\* Properties of the run.

\* the restores completed so far
Restored == pc = "loop" /\ idx > 1

\* the slides a clone produced
Generated == {i \in 1..Len(slides) : slides[i].origin > 0}

\* C1: after every restore the template's shape tree is element for element
\* the snapshot taken before the first fill, which is the tree the document
\* was loaded with, whatever the fill of the row did to it.
C1_RestoreIdempotent ==
    Restored =>
        /\ slides[1].shapes = backup.shapes
        /\ backup.shapes = input[1].shapes

\* C1 witness: two restores are done and a fill had put a picture shape of
\* a new id on the template, as a generated slide shows.
C1_Witness ==
    /\ Restored
    /\ idx > 2
    /\ \E i \in Generated :
          ~(ShapeIds(slides[i].shapes) \subseteq ShapeIds(backup.shapes))

\* the slide a row yields: the loaded template filled with that row alone
ExpectedShapes(k) ==
    FillTemplateWithRow([shapes |-> input[1].shapes, rels |-> input[1].rels],
                        rows[k], {}).shapes

\* a shape tree without its relationship ids
RECURSIVE NoRefs(_)
NoRefs(shapes) ==
    [i \in 1..Len(shapes) |->
        [shapes[i] EXCEPT !.refs = <<>>, !.kids = NoRefs(shapes[i].kids)]]

\* C2 as stated: the saved presentation holds exactly N slides, the k-th
\* generated from the k-th row, and no slide of the input document.
C2_ExactlyGenerated ==
    pc = "done" =>
        /\ Len(saved.slides) = Len(rows)
        /\ \A k \in 1..Len(saved.slides) : saved.slides[k].origin = k

\* C2 amended: the saved presentation holds the input slides after the
\* first, unchanged and in order, followed by exactly N generated slides,
\* the k-th of them showing the template filled with the k-th row; the
\* template slide is gone from the list and from the presentation's
\* relationships.
C2_TemplateDroppedGeneratedAppended ==
    pc = "done" =>
        LET kept == Len(input) - 1
        IN  /\ saved.done
            /\ saved.slides = slides
            /\ Len(slides) = kept + Len(rows)
            /\ \A j \in 1..kept : slides[j] = input[j + 1]
            /\ \A k \in 1..Len(rows) :
                  /\ slides[kept + k].origin = k
                  /\ NoRefs(slides[kept + k].shapes) = NoRefs(ExpectedShapes(k))
            /\ \A i \in 1..Len(slides) : slides[i].part # input[1].part
            /\ input[1].part \notin prsRels
            /\ prsRels = {slides[i].part : i \in 1..Len(slides)}

\* C2 witness: a saved presentation of two generated slides behind a slide
\* the input document had after its template.
C2_Witness ==
    /\ pc = "done"
    /\ Len(rows) = 2
    /\ Len(input) > 1
    /\ rows[1] # rows[2]

\* C3: with a source of no rows the run ends at the validity check: the
\* slides are the loaded ones, no snapshot is taken and nothing is saved.
C3_EmptySourceAborts ==
    Len(rows) = 0 /\ input # <<>> =>
        /\ pc \in {"load", "aborted"}
        /\ slides = input
        /\ prsRels = {input[i].part : i \in 1..Len(input)}
        /\ ~backup.taken
        /\ ~saved.done

\* C3 witness: the run on an empty source has ended.
C3_Witness == pc = "aborted" /\ Len(rows) = 0 /\ Len(input) > 0

\* the fill of row prefill.row has just ended
Filled == pc = "clone"

\* the row dictionary of the fill that has just ended
FilledRow == RowDict(rows[prefill.row])

\* the shapes the fill looked at whose label is a key of the row, as they
\* were when the fill began
Matched ==
    {s \in {Find(prefill.shapes, id) :
               id \in Range(ShapesToProcess(prefill.shapes))} :
        /\ NormalizeKey(GetTextContent(s)) # <<>>
        /\ NormalizeKey(GetTextContent(s)) \in DOMAIN FilledRow}

\* the value the row holds for a matched shape
ValueOf(s) == FilledRow[NormalizeKey(GetTextContent(s))]

\* a value the specification calls missing: None, NaN, "nan" in any
\* letter case, or blank after trimming
ClaimMissing(v) ==
    \/ v.ty \in {"none", "nan"}
    \/ v.ty = "str" /\ Lower(v.s) = <<"n", "a", "n">>
    \/ v.ty = "str" /\ Strip(v.s) = <<>>

\* the texts of all runs of a shape, one after the other
RECURSIVE RunTexts(_)
RunTexts(paras) ==
    IF paras = <<>> THEN <<>>
    ELSE LET rs == Runs(Head(paras))
             RECURSIVE Cat(_)
             Cat(r) == IF r = <<>> THEN <<>> ELSE Head(r).t \o Cat(Tail(r))
         IN  Cat(rs) \o RunTexts(Tail(paras))

\* C4 as stated: after a fill, every matched text shape whose value is
\* missing (None, NaN, "nan" in any case, blank) is still the same kind of
\* shape, no picture was made for it, and its text is empty, so it never
\* shows "nan".
C4_MissingValuesBlank ==
    Filled =>
        \A s \in Matched :
            HasTextFrame(s) /\ ClaimMissing(ValueOf(s)) =>
                /\ s.id \in ShapeIds(slides[1].shapes)
                /\ Find(slides[1].shapes, s.id).kind = s.kind
                /\ RunTexts(Find(slides[1].shapes, s.id).paras) = <<>>

\* the extensions the specification lists for image values
ClaimImageExtensions ==
    { <<"p", "n", "g">>, <<"j", "p", "g">>, <<"j", "p", "e", "g">>,
      <<"g", "i", "f">>, <<"b", "m", "p">>, <<"t", "i", "f">>,
      <<"t", "i", "f", "f">>, <<"w", "e", "b", "p">> }

\* the routing rule of the specification: the key ends in _IMG or the
\* trimmed value ends in a dot and an image extension, in any letter case
ClaimRouted(s) ==
    LET key == NormalizeKey(GetTextContent(s))
        sval == Strip(PyStr(ValueOf(s)))
    IN  \/ Len(key) >= 4 /\ Upper(SubSeq(key, Len(key) - 3, Len(key)))
                              = <<"_", "I", "M", "G">>
        \/ \E e \in ClaimImageExtensions :
              /\ Len(sval) > Len(e)
              /\ Lower(SubSeq(sval, Len(sval) - Len(e), Len(sval))) = <<".">> \o e

\* the matched shapes whose value is not missing
MatchedWithValue == {s \in Matched : ~ClaimMissing(ValueOf(s))}

\* C5: after a fill, a matched shape with a value is treated as a picture
\* field exactly when its key ends in _IMG or its trimmed value ends in an
\* image extension, in any letter case: a routed shape is never written as
\* text, every other one carries the trimmed value as the text of its one
\* run. A routed value that names no existing file leaves its shape as it
\* was, and when no routed value of the row names a file the slide has the
\* shapes and the relationships it had, and the fill still ends.
C5_ImageRouting ==
    Filled =>
        /\ \A s \in MatchedWithValue :
              LET sval == Strip(PyStr(ValueOf(s)))
                  there == s.id \in ShapeIds(slides[1].shapes)
                  after == Find(slides[1].shapes, s.id)
              IN  IF ClaimRouted(s)
                  THEN /\ there => after = s \/ after.kind = "phpic"
                       /\ sval \notin ExistingFiles => there /\ after = s
                  ELSE /\ there
                       /\ after.kind = s.kind
                       /\ Len(after.paras) = 1
                       /\ Len(Runs(after.paras[1])) = 1
                       /\ Runs(after.paras[1])[1].t = sval
        /\ (\A s \in MatchedWithValue :
               ClaimRouted(s) => Strip(PyStr(ValueOf(s))) \notin ExistingFiles)
             => /\ ShapeIds(slides[1].shapes) = ShapeIds(prefill.shapes)
                /\ slides[1].rels = prefill.rels

\* C5 witness: a fill has ended in which a value ending in .png under a key
\* without _IMG named a file that does not exist, and the shape is as it was.
C5_Witness ==
    /\ Filled
    /\ \E s \in MatchedWithValue :
          /\ ClaimRouted(s)
          /\ ~EndsWith(Upper(NormalizeKey(GetTextContent(s))),
                       <<"_", "I", "M", "G">>)
          /\ Strip(PyStr(ValueOf(s))) = FileGone
          /\ Find(slides[1].shapes, s.id) = s

\* a clone has just been made of the filled template
Cloned == pc = "restore"

\* the relationship ids a slide's XML refers to, background first, then
\* the shapes in document order
RECURSIVE ShapeRefs(_)
ShapeRefs(shapes) ==
    IF shapes = <<>> THEN <<>>
    ELSE Head(shapes).refs \o ShapeRefs(Head(shapes).kids)
                          \o ShapeRefs(Tail(shapes))

AllRefs(slide) == slide.bg \o ShapeRefs(slide.shapes)

\* C6 as stated: on the slide a clone has just made, every r:embed and r:id
\* whose id was in the source slide's table is an id of the new slide's
\* table that leads to the same target, and every relationship id the new
\* slide's XML refers to is in the new slide's own table.
C6_CloneRelationships ==
    Cloned =>
        LET src == slides[1]
            dst == slides[Len(slides)]
            sr == AllRefs(src)
            dr == AllRefs(dst)
        IN  /\ Len(dr) = Len(sr)
            /\ \A i \in 1..Len(sr) :
                  sr[i].attr \in {"embed", "id"} /\ sr[i].rid \in DOMAIN src.rels
                  => /\ dr[i].rid \in DOMAIN dst.rels
                     /\ dst.rels[dr[i].rid] = src.rels[sr[i].rid]
            /\ \A i \in 1..Len(dr) : dr[i].rid \in DOMAIN dst.rels

\* the groups at the top level of the template when the fill began
TopGroups == {g \in Range(prefill.shapes) : g.kind = "grp"}

RECURSIVE ClaimClean(_)
ClaimClean(s) ==
    IF s = <<>> THEN <<>>
    ELSE LET c == Head(s)
         IN  (IF c \in {"ZWSP", "BOM", "WJ", "CR", "LF"} THEN <<>>
              ELSE IF c \in {"NBSP", "TAB"} THEN <<" ">>
              ELSE <<c>>) \o ClaimClean(Tail(s))

\* the positions of s that survive trimming and the collapse of space runs
ClaimKept(s) ==
    {i \in 1..Len(s) :
        /\ \E j \in 1..i : s[j] \notin {" ", "VT"}
        /\ \E j \in i..Len(s) : s[j] \notin {" ", "VT"}
        /\ ~(s[i] = " " /\ s[i - 1] = " ")}

\* the elements of s at the positions of S, in order
RECURSIVE ClaimPick(_, _, _)
ClaimPick(s, S, i) ==
    IF i > Len(s) THEN <<>>
    ELSE (IF i \in S THEN <<s[i]>> ELSE <<>>) \o ClaimPick(s, S, i + 1)

ClaimNormalize(s) == ClaimPick(ClaimClean(s), ClaimKept(ClaimClean(s)), 1)

\* a shape of the template that the fill changed or took away
Modified(s) ==
    \/ s.id \notin ShapeIds(slides[1].shapes)
    \/ [Find(slides[1].shapes, s.id) EXCEPT !.kids = <<>>] # [s EXCEPT !.kids = <<>>]

C9_ErrorsSoft == pc = "aborted" => Len(rows) = 0

\* C10 as stated: after every restore the template part's relationship
\* table is the table it had when the snapshot was taken, which is the
\* table the document was loaded with.
C10_TemplateRelsRestored == Restored => slides[1].rels = input[1].rels

\* C11: after set_text_preserve_style a shape with a text frame has one
\* paragraph holding one run, whose text is the value (empty for None and
\* NaN) and whose style is the style of the original first run when the
\* first paragraph had a run, and nothing else of the shape has changed; a
\* shape without a text frame is as it was; a second call with the same
\* value leaves the shape as the first call left it.
C11_SetTextGuarantee ==
    pc \in {"settext", "settextdone"} /\ canon # <<>> =>
        LET sh == probe.shape
            want == IF probe.value.ty \in {"none", "nan"} THEN <<>>
                    ELSE probe.value.s
            after == canon[1]
        IN  /\ IF sh.kind = "sp"
               THEN /\ Len(after.paras) = 1
                    /\ Len(Runs(after.paras[1])) = 1
                    /\ Runs(after.paras[1])[1].t = want
                    /\ Runs(sh.paras[1]) # <<>> =>
                          Runs(after.paras[1])[1].sty = Runs(sh.paras[1])[1].sty
                    /\ [after EXCEPT !.paras = sh.paras] = sh
               ELSE after = sh
            /\ Len(canon) = 2 => canon[2] = canon[1]

\* C11 witness: both calls are done on a shape of two paragraphs whose first
\* held two runs of different styles, with the value NaN.
C11_Witness ==
    /\ pc = "settextdone"
    /\ probe.value.ty = "nan"
    /\ Len(probe.shape.paras) = 2
    /\ probe.shape.paras[1] = <<Run(<<"N">>, 1), Run(<<"x">>, 2)>>

\* the positions of the source slide's references that the remapper
\* rewrites: r:embed and r:id holding an id of the source table
Remapped ==
    {i \in 1..Len(AllRefs(slides[1])) :
        /\ AllRefs(slides[1])[i].attr \in {"embed", "id"}
        /\ AllRefs(slides[1])[i].rid \in DOMAIN slides[1].rels}

\* the entries of a table that hold a given relationship
EntriesFor(rels, rel) == {r \in DOMAIN rels : rels[r] = rel}

\* C12 as stated: on the slide a clone has just made, the nodes that were
\* remapped hold pairwise distinct ids, a source relationship referred to k
\* times has at least k entries of its own in the new slide's table, and
\* the references that were not remapped are as in the source.
C12_OneEntryPerOccurrence ==
    Cloned =>
        LET src == slides[1]
            dst == slides[Len(slides)]
            sr == AllRefs(src)
            dr == AllRefs(dst)
        IN  /\ \A i, j \in Remapped : i # j => dr[i].rid # dr[j].rid
            /\ \A i \in Remapped :
                  Cardinality(EntriesFor(dst.rels, src.rels[sr[i].rid]))
                      >= Cardinality({j \in Remapped : sr[j].rid = sr[i].rid})
            /\ \A i \in (1..Len(sr)) \ Remapped : dr[i] = sr[i]

\* C12 amended: on the slide a clone has just made, every remapped node
\* holds an id of the new slide's table that leads to the relationship the
\* source id led to; nodes that referred to the same relationship share one
\* id and one entry; the table holds no relationship twice and holds, next
\* to the layout relationship the slide was created with, exactly the
\* relationships the remapped nodes refer to; the references that were not
\* remapped are as in the source and have no entry of their own.
C12_OneEntryPerRelationship ==
    Cloned =>
        LET src == slides[1]
            dst == slides[Len(slides)]
            sr == AllRefs(src)
            dr == AllRefs(dst)
            layout == Rel("slideLayout", <<src.layout>>, FALSE)
        IN  /\ Len(dr) = Len(sr)
            /\ \A i \in Remapped :
                  /\ dr[i].rid \in DOMAIN dst.rels
                  /\ dst.rels[dr[i].rid] = src.rels[sr[i].rid]
            /\ \A i, j \in Remapped :
                  src.rels[sr[i].rid] = src.rels[sr[j].rid] => dr[i].rid = dr[j].rid
            /\ \A r \in DOMAIN dst.rels :
                  Cardinality(EntriesFor(dst.rels, dst.rels[r])) = 1
            /\ dst.rels[1] = layout
            /\ Range(dst.rels) = {layout} \cup {src.rels[sr[i].rid] : i \in Remapped}
            /\ \A i \in (1..Len(sr)) \ Remapped : dr[i] = sr[i]

\* C12 witness: a clone has just been made of a slide in which two nodes
\* refer to the same relationship and a third reference is not remapped.
C12_Witness ==
    /\ Cloned
    /\ \E i, j \in Remapped :
          i # j /\ AllRefs(slides[1])[i].rid = AllRefs(slides[1])[j].rid
    /\ (1..Len(AllRefs(slides[1]))) \ Remapped # {}

\* C13: on the slide a clone has just made, the top-level shapes are the
\* source's top-level shapes, one for one and in the source's order, equal
\* to them up to the relationship ids, with no other shape; the slide is
\* the last of the document and belongs to the row at hand; and the step
\* that clones leaves the source slide, shape tree and relationship table,
\* and every slide before the new one as they were.
C13_ClonePreservesTree ==
    /\ [](Cloned =>
            LET dst == slides[Len(slides)]
            IN  /\ NoRefs(dst.shapes) = NoRefs(slides[1].shapes)
                /\ Len(dst.shapes) = Len(slides[1].shapes)
                /\ dst.origin = idx
                /\ dst.part \in prsRels
                /\ \A i \in 1..(Len(slides) - 1) : slides[i].origin < idx)
    /\ [][pc = "clone" =>
            /\ Len(slides') = Len(slides) + 1
            /\ SubSeq(slides', 1, Len(slides)) = slides
            /\ slides'[1].shapes = slides[1].shapes
            /\ slides'[1].rels = slides[1].rels]_vars

\* C13 witness: a clone has just been made of a filled template of several
\* shapes whose layout brings a placeholder of its own to a new slide.
C13_Witness ==
    /\ Cloned
    /\ LayoutPlaceholders(slides[1].layout) # <<>>
    /\ Len(slides[1].shapes) > 1
    /\ slides[1].shapes # backup.shapes
    /\ Len(slides) > 2

\* the matched shapes of the fill whose value names an existing file and
\* are routed to the picture path without being a picture placeholder
Fallbacks ==
    {s \in MatchedWithValue :
        /\ ClaimRouted(s)
        /\ Strip(PyStr(ValueOf(s))) \in ExistingFiles
        /\ s.kind # "picph"}

\* the fallbacks whose image can be read, and those whose image cannot
FallbacksDone == {s \in Fallbacks : Strip(PyStr(ValueOf(s))) \in ReadableImages}

FallbacksFailed == Fallbacks \ FallbacksDone

\* the top-level shapes of the template that were not there when the fill began
NewShapes == {p \in Range(slides[1].shapes) : p.id \notin ShapeIds(prefill.shapes)}

\* C14: after a fill, every shape replaced through the fallback is gone from
\* the slide and exactly one new top-level picture has its geometry and
\* embeds the image the value names; the slide has as many new shapes as
\* there were successful fallbacks and all of them are such pictures; a
\* shape whose image could not be read is on the slide as it was, and the
\* fill went on: every matched shape with a plain text value carries it.
C14_PictureFallback ==
    Filled =>
        /\ \A s \in FallbacksDone :
              /\ s.id \notin ShapeIds(slides[1].shapes)
              /\ Cardinality({p \in NewShapes : p.geom = s.geom}) = 1
              /\ \A p \in NewShapes :
                    p.geom = s.geom =>
                        /\ p.kind = "pic"
                        /\ Len(p.refs) = 1
                        /\ p.refs[1].attr = "embed"
                        /\ p.refs[1].rid \in DOMAIN slides[1].rels
                        /\ slides[1].rels[p.refs[1].rid].target
                             = Strip(PyStr(ValueOf(s)))
        /\ Cardinality(NewShapes) = Cardinality(FallbacksDone)
        /\ ShapeIds(slides[1].shapes) \ ShapeIds(prefill.shapes)
             = {p.id : p \in NewShapes}
        /\ \A s \in FallbacksFailed :
              /\ s.id \in ShapeIds(slides[1].shapes)
              /\ Find(slides[1].shapes, s.id) = s
        /\ FallbacksFailed # {} =>
              \A t \in MatchedWithValue :
                  ~ClaimRouted(t) =>
                      /\ t.id \in ShapeIds(slides[1].shapes)
                      /\ Runs(Find(slides[1].shapes, t.id).paras[1])[1].t
                           = Strip(PyStr(ValueOf(t)))

\* C14 witness: a fill has ended in which one shape was replaced by a
\* picture, the image of another could not be read, and a shape behind that
\* one took a plain text value.
C14_Witness ==
    /\ Filled
    /\ FallbacksDone # {}
    /\ FallbacksFailed # {}
    /\ \E t \in MatchedWithValue : ~ClaimRouted(t)

====
